---- MODULE Spec2Model ----
(***************************************************************************)
(* The proposal deliberation workflow of the CXO council dashboard.        *)
(*                                                                         *)
(* Two builds of the ProposalProvider are in the repository:               *)
(*   "api"   frontend/src/contexts/ProposalContext.tsx, which persists     *)
(*           proposals and messages through the REST backend, with the     *)
(*           ProposalDetail page of frontend/src/api/client.ts;            *)
(*   "local" unnamed/part_003, which keeps everything in React state, with *)
(*           the ProposalDetail page of unnamed/part_000.                  *)
(* The variable build says which one a behaviour runs.                     *)
(***************************************************************************)
EXTENDS Integers, Sequences, FiniteSets, TLC

VARIABLES
    build,          \* "api" or "local"
    agents,         \* AgentContext: the roster, a sequence of [domain, active]
    proposals,      \* ProposalProvider state: sequence of [id, status, riskTier, confidence]
    deliberations,  \* ProposalProvider state: id -> sequence of Round
    srvStatus,      \* backend: id -> status of the stored proposal, "none" if absent
    srvMsgs,        \* backend: id -> stored messages of the proposal
    tasks,          \* api build: the async calls started so far, with their position
    addPending,     \* api build: ids whose POST /proposals/ response is still in flight
    failures,       \* number of backend calls that have failed
    toast,          \* what the last operation reported: the message shown to the user or
                    \* the error thrown to the caller (level "none": nothing)
    votes,          \* local build: id -> sequence of [domain, vote]
    timers,         \* local build: the setTimeout callbacks not yet run
    page,           \* local build: the proposal whose ProposalDetail is mounted
    notifications   \* NotificationProvider: newest first, [id, type, read]

vars == <<build, agents, proposals, deliberations, srvStatus, srvMsgs, tasks,
          addPending, failures, toast, votes, timers, page, notifications>>

----------------------------------------------------------------------------
\* Bounds of the model

MaxProposals == 1
MaxInfo == 2
MaxManualRefresh == 1
MaxFailures == 1
MaxInFlight == 2
MaxGen == 2
MaxEarlyInfo == 1
MaxAgents == 5
MaxNotifications == 3

\* Program constants

roundsCount == 5
approveMinRounds == 5
rejectMinRounds == 3

----------------------------------------------------------------------------
\* Identifiers

SrvIds == <<"1", "2">>
SeedIds == <<"P-001", "P-002", "P-003", "P-004">>
NewLocalId(n) == <<"P-001", "P-002", "P-003", "P-004", "P-005", "P-006">>[n]
AllIds == {SrvIds[i] : i \in DOMAIN SrvIds} \cup {NewLocalId(n) : n \in 1..6}

NoRounds == [id \in AllIds |-> <<>>]

RECURSIVE SortedSeq(_)
SortedSeq(S) ==
    IF S = {} THEN <<>>
    ELSE LET lo == CHOOSE x \in S : \A y \in S : x <= y
         IN  <<lo>> \o SortedSeq(S \ {lo})

----------------------------------------------------------------------------
\* Roster

\* the filter without the exclusion of the CEO
IsParticipantAnyRole(a) == a.active

IsParticipant(a) == a.active /\ a.domain # "ceo"

ActiveParticipants(roster) ==
    LET act == SelectSeq(roster, IsParticipant)
    IN  [i \in DOMAIN act |-> act[i].domain]

GenFallback == <<"finance", "hr", "ops", "security", "legal">>
InfoFallback == <<"finance", "ops">>

GenParticipants(roster) ==
    IF Len(ActiveParticipants(roster)) > 0 THEN ActiveParticipants(roster) ELSE GenFallback

InfoParticipants(roster) ==
    IF Len(ActiveParticipants(roster)) > 0 THEN ActiveParticipants(roster) ELSE InfoFallback

----------------------------------------------------------------------------
\* Messages

EvidenceDomains == {"finance", "hr", "ops", "security", "legal"}

AgentMsg(round, domain) ==
    [round |-> round, domain |-> domain, concl |-> FALSE, kind |-> "delib",
     evidence |-> (round \in {2, 4} /\ domain \in EvidenceDomains)]

ConclusionMsg(round) ==
    [round |-> round, domain |-> "system", concl |-> TRUE, kind |-> "conclusion",
     evidence |-> FALSE]

RoundBatch(round, parts) ==
    [i \in 1..(Len(parts) + 1) |->
        IF i <= Len(parts) THEN AgentMsg(round, parts[i]) ELSE ConclusionMsg(round)]

RECURSIVE BatchUpTo(_, _)
BatchUpTo(round, parts) ==
    IF round = 0 THEN <<>> ELSE BatchUpTo(round - 1, parts) \o RoundBatch(round, parts)

messagesToSave(parts) == BatchUpTo(roundsCount, parts)

QueryMsg(round) ==
    [round |-> round, domain |-> "admin", concl |-> FALSE, kind |-> "query",
     evidence |-> FALSE]

ResponseMsg(round, domain) ==
    [round |-> round, domain |-> domain, concl |-> FALSE, kind |-> "response",
     evidence |-> FALSE]

InfoConclusionMsg(round) ==
    [round |-> round, domain |-> "system", concl |-> TRUE, kind |-> "infoConclusion",
     evidence |-> FALSE]

----------------------------------------------------------------------------
\* Proposals.  The confidence is held in hundredths.

defaultConfidence == 75

\* the proposal addProposal creates, and what mapDjangoToProposal makes of the
\* stored one: risk tier and confidence are the defaults sent at creation
NewProposal(id, status) ==
    [id |-> id, status |-> status, riskTier |-> "medium", confidence |-> defaultConfidence]

----------------------------------------------------------------------------
\* Backend store

MsgKey(m) == 2 * m.round + (IF m.concl THEN 1 ELSE 0)

StoreMsg(stored, m) ==
    SelectSeq(stored, LAMBDA x : MsgKey(x) <= MsgKey(m)) \o <<m>>
        \o SelectSeq(stored, LAMBDA x : MsgKey(x) > MsgKey(m))

SrvProposals ==
    LET ids == SortedSeq({i \in DOMAIN SrvIds : srvStatus[SrvIds[i]] # "none"})
    IN  [k \in DOMAIN ids |-> NewProposal(SrvIds[ids[k]], srvStatus[SrvIds[ids[k]]])]

----------------------------------------------------------------------------
\* refreshProposals: grouping of the stored messages into rounds

GroupRound(msgs, n) ==
    LET mine  == SelectSeq(msgs, LAMBDA m : m.round = n)
        concl == SelectSeq(mine, LAMBDA m : m.concl)
    IN  [round |-> n,
         conversations |-> SelectSeq(mine, LAMBDA m : ~m.concl),
         conclusion |-> IF concl = <<>> THEN "none" ELSE concl[Len(concl)].kind]

GroupRounds(msgs) ==
    LET nums == SortedSeq({msgs[i].round : i \in DOMAIN msgs})
    IN  [k \in DOMAIN nums |-> GroupRound(msgs, nums[k])]

getDeliberation(id) == deliberations[id]

LocalIds == {proposals[i].id : i \in DOMAIN proposals}

----------------------------------------------------------------------------
\* Tasks: one record per asynchronous call of the api build

NoTask == [kind |-> "none", pc |-> "done", pid |-> "1", parts |-> <<>>,
           pending |-> {}, nextRound |-> 0, k |-> 0, todo |-> <<>>,
           acc |-> NoRounds, failed |-> FALSE]

RefreshTask(kind) == [NoTask EXCEPT !.kind = kind, !.pc = "list"]

GenTask(id, parts) ==
    [NoTask EXCEPT !.kind = "gen", !.pc = "posting", !.pid = id, !.parts = parts,
                   !.pending = DOMAIN messagesToSave(parts)]

InfoTask(id, parts, nextRound) ==
    [NoTask EXCEPT !.kind = "info", !.pc = "admin", !.pid = id, !.parts = parts,
                   !.nextRound = nextRound, !.k = 1]

Finished(t) == [NoTask EXCEPT !.kind = t.kind, !.pid = t.pid, !.failed = t.failed]

\* The posts of one Promise.all are sent in array order; the backend handles at
\* most MaxInFlight of them at a time, in any order.
InWindow(t, j) == Cardinality({k \in t.pending : k < j}) < MaxInFlight

CountKind(kind) == Cardinality({i \in DOMAIN tasks : tasks[i].kind = kind})

----------------------------------------------------------------------------
\* NotificationProvider.  The id of a notification is the clock tick of
\* Date.now() at the call: the tick of the newest notification when the call
\* falls into the same millisecond, a later one otherwise.

NotifTicks(list) == IF list = <<>> THEN {1} ELSE {list[1].id, list[1].id + 1}

NewNotification(type, tick) == [id |-> tick, type |-> type, read |-> FALSE]

addNotification(type) ==
    /\ Len(notifications) < MaxNotifications
    /\ \E tick \in NotifTicks(notifications) :
           notifications' = <<NewNotification(type, tick)>> \o notifications

----------------------------------------------------------------------------
\* Initial states

SavedRoster ==
    <<[domain |-> "ceo", active |-> TRUE],
      [domain |-> "hr", active |-> TRUE],
      [domain |-> "finance", active |-> TRUE],
      [domain |-> "sales", active |-> FALSE]>>

NoPage == [id |-> "none", requestLoading |-> FALSE]

NoToast == [op |-> "none", level |-> "none", pid |-> "none"]

InitApiWith(roster) ==
    /\ build = "api"
    /\ agents = roster
    /\ proposals = <<>>
    /\ deliberations = NoRounds
    /\ srvStatus = [id \in AllIds |-> "none"]
    /\ srvMsgs = [id \in AllIds |-> <<>>]
    /\ tasks = <<RefreshTask("mount")>>
    /\ addPending = {}
    /\ failures = 0
    /\ toast = NoToast
    /\ votes = NoRounds
    /\ timers = {}
    /\ page = NoPage
    /\ notifications = <<>>

InitApi == InitApiWith(SavedRoster)

----------------------------------------------------------------------------
\* api build: addProposal

NextSrvId == SrvIds[Cardinality({id \in AllIds : srvStatus[id] # "none"}) + 1]

AddProposalPost ==
    /\ build = "api"
    /\ Cardinality({id \in AllIds : srvStatus[id] # "none"}) < MaxProposals
    /\ srvStatus' = [srvStatus EXCEPT ![NextSrvId] = "deliberating"]
    /\ addPending' = addPending \cup {[id |-> NextSrvId, parts |-> GenParticipants(agents)]}
    /\ UNCHANGED <<votes, timers, page, build, notifications, agents, proposals, deliberations, srvMsgs, tasks, failures, toast>>

AddProposalFails ==
    /\ build = "api"
    /\ failures < MaxFailures
    /\ Cardinality({id \in AllIds : srvStatus[id] # "none"}) < MaxProposals
    /\ failures' = failures + 1
    /\ toast' = [op |-> "addProposal", level |-> "error", pid |-> "none"]
    /\ UNCHANGED <<votes, timers, page, build, notifications, agents, proposals, deliberations, srvStatus, srvMsgs, tasks, addPending>>

AddProposalResp ==
    \E a \in addPending :
        /\ addPending' = addPending \ {a}
        /\ proposals' = <<NewProposal(a.id, "deliberating")>> \o proposals
        /\ tasks' = Append(tasks, GenTask(a.id, a.parts))
        /\ addNotification("proposal")
        /\ toast' = [op |-> "addProposal", level |-> "success", pid |-> a.id]
        /\ UNCHANGED <<votes, timers, page, build, agents, deliberations, srvStatus, srvMsgs, failures>>

----------------------------------------------------------------------------
\* api build: refreshProposals, run by the mount effect, the Refresh button,
\* generateDeliberation and addInfoRequest

FinishToast(t) ==
    IF t.kind = "info" THEN [op |-> "addInfoRequest", level |-> "success", pid |-> t.pid]
    ELSE toast

RefreshList ==
    \E i \in DOMAIN tasks :
        LET t == tasks[i]
            ids == [k \in DOMAIN SrvProposals |-> SrvProposals[k].id]
        IN  /\ t.pc = "list"
            /\ proposals' = SrvProposals
            /\ IF ids = <<>>
               THEN /\ deliberations' = NoRounds
                    /\ tasks' = [tasks EXCEPT ![i] = Finished(t)]
                    /\ toast' = FinishToast(t)
               ELSE /\ tasks' = [tasks EXCEPT ![i].pc = "msgs", ![i].todo = ids]
                    /\ UNCHANGED <<deliberations, toast>>
            /\ UNCHANGED <<votes, timers, page, build, notifications, agents, srvStatus, srvMsgs, addPending, failures>>

RefreshMsgs ==
    \E i \in DOMAIN tasks :
        LET t == tasks[i]
            p == Head(t.todo)
            acc == [t.acc EXCEPT ![p] = GroupRounds(srvMsgs[p])]
        IN  /\ t.pc = "msgs"
            /\ IF Len(t.todo) = 1
               THEN /\ deliberations' = acc
                    /\ tasks' = [tasks EXCEPT ![i] = Finished(t)]
                    /\ toast' = FinishToast(t)
               ELSE /\ tasks' = [tasks EXCEPT ![i].todo = Tail(t.todo), ![i].acc = acc]
                    /\ UNCHANGED <<deliberations, toast>>
            /\ UNCHANGED <<votes, timers, page, build, notifications, agents, proposals, srvStatus, srvMsgs, addPending, failures>>

RefreshFails ==
    \E i \in DOMAIN tasks :
        LET t == tasks[i]
        IN  /\ t.pc \in {"list", "msgs"}
            /\ failures < MaxFailures
            /\ failures' = failures + 1
            /\ tasks' = [tasks EXCEPT ![i] = Finished(t)]
            /\ toast' = FinishToast(t)
            /\ UNCHANGED <<votes, timers, page, build, notifications, agents, proposals, deliberations, srvStatus, srvMsgs, addPending>>

ManualRefresh ==
    /\ build = "api"
    /\ CountKind("refresh") < MaxManualRefresh
    /\ tasks' = Append(tasks, RefreshTask("refresh"))
    /\ UNCHANGED <<votes, timers, page, build, notifications, agents, proposals, deliberations, srvStatus, srvMsgs, addPending, failures, toast>>

----------------------------------------------------------------------------
\* api build: generateDeliberation

GenPostLands ==
    \E i \in DOMAIN tasks : \E j \in tasks[i].pending :
        LET t == tasks[i]
            left == t.pending \ {j}
        IN  /\ t.kind = "gen"
            /\ InWindow(t, j)
            /\ srvMsgs' = [srvMsgs EXCEPT ![t.pid] = StoreMsg(@, messagesToSave(t.parts)[j])]
            /\ tasks' = [tasks EXCEPT ![i] =
                   IF left # {} THEN [t EXCEPT !.pending = left]
                   ELSE IF t.pc = "posting" THEN [t EXCEPT !.pending = left, !.pc = "patch"]
                   ELSE Finished(t)]
            /\ UNCHANGED <<votes, timers, page, build, notifications, agents, proposals, deliberations, srvStatus, addPending, failures, toast>>

GenPostFails ==
    \E i \in DOMAIN tasks : \E j \in tasks[i].pending :
        LET t == tasks[i]
            left == t.pending \ {j}
        IN  /\ t.kind = "gen"
            /\ InWindow(t, j)
            /\ failures < MaxFailures
            /\ failures' = failures + 1
            /\ tasks' = [tasks EXCEPT ![i] =
                   IF left # {} THEN [t EXCEPT !.pending = left, !.pc = "failed", !.failed = TRUE]
                   ELSE Finished([t EXCEPT !.failed = TRUE])]
            /\ UNCHANGED <<votes, timers, page, build, notifications, agents, proposals, deliberations, srvStatus, srvMsgs, addPending, toast>>

\* the PATCH sending the status that follows voting in the Proposal type
PatchPendingCeo ==
    \E i \in DOMAIN tasks :
        LET t == tasks[i]
        IN  /\ t.pc = "patch"
            /\ srvStatus' = [srvStatus EXCEPT ![t.pid] = "pending_ceo"]
            /\ tasks' = [tasks EXCEPT ![i].pc = "list"]
            /\ UNCHANGED <<votes, timers, page, build, notifications, agents, proposals, deliberations, srvMsgs, addPending, failures, toast>>

\* PATCH status 'voting', by generateDeliberation and by addInfoRequest
PatchVoting ==
    \E i \in DOMAIN tasks :
        LET t == tasks[i]
        IN  /\ t.pc = "patch"
            /\ srvStatus' = [srvStatus EXCEPT ![t.pid] = "voting"]
            /\ tasks' = [tasks EXCEPT ![i].pc = "list"]
            /\ UNCHANGED <<votes, timers, page, build, notifications, agents, proposals, deliberations, srvMsgs, addPending, failures, toast>>

PatchVotingFails ==
    \E i \in DOMAIN tasks :
        LET t == tasks[i]
        IN  /\ t.pc = "patch"
            /\ failures < MaxFailures
            /\ failures' = failures + 1
            /\ tasks' = [tasks EXCEPT ![i] = Finished([t EXCEPT !.failed = TRUE])]
            /\ toast' = FinishToast(t)
            /\ UNCHANGED <<votes, timers, page, build, notifications, agents, proposals, deliberations, srvStatus, srvMsgs, addPending>>

\* generateDeliberation called through the context for a proposal of the list
generateDeliberation(id) ==
    /\ build = "api"
    /\ id \in LocalIds
    /\ CountKind("gen") < MaxGen
    /\ tasks' = Append(tasks, GenTask(id, GenParticipants(agents)))
    /\ UNCHANGED <<votes, timers, page, build, notifications, agents, proposals, deliberations, srvStatus, srvMsgs, addPending, failures, toast>>

----------------------------------------------------------------------------
\* api build: addInfoRequest, called by ProposalDetail.submitInfoRequest

InfoMsg(t) ==
    IF t.pc = "admin" THEN QueryMsg(t.nextRound)
    ELSE IF t.pc = "resp" THEN ResponseMsg(t.nextRound, t.parts[t.k])
    ELSE InfoConclusionMsg(t.nextRound)

\* addInfoRequest without the post of the conclusion message
InfoNextNoConclusion(t) ==
    IF t.pc = "admin" THEN [t EXCEPT !.pc = "resp"]
    ELSE IF t.k < Len(t.parts) THEN [t EXCEPT !.k = t.k + 1] ELSE [t EXCEPT !.pc = "patch"]

InfoNext(t) ==
    IF t.pc = "admin" THEN [t EXCEPT !.pc = "resp"]
    ELSE IF t.pc = "resp"
         THEN IF t.k < Len(t.parts) THEN [t EXCEPT !.k = t.k + 1] ELSE [t EXCEPT !.pc = "concl"]
    ELSE [t EXCEPT !.pc = "patch"]

addInfoRequest(proposalId) ==
    /\ build = "api"
    /\ proposalId \in LocalIds
    /\ CountKind("info") < MaxInfo
    /\ tasks' = Append(tasks, InfoTask(proposalId, InfoParticipants(agents),
                                       Len(deliberations[proposalId]) + 1))
    /\ UNCHANGED <<votes, timers, page, build, notifications, agents, proposals, deliberations, srvStatus, srvMsgs, addPending, failures, toast>>

InfoPostLands ==
    \E i \in DOMAIN tasks :
        LET t == tasks[i]
        IN  /\ t.kind = "info"
            /\ t.pc \in {"admin", "resp", "concl"}
            /\ srvMsgs' = [srvMsgs EXCEPT ![t.pid] = StoreMsg(@, InfoMsg(t))]
            /\ tasks' = [tasks EXCEPT ![i] = InfoNext(t)]
            /\ UNCHANGED <<votes, timers, page, build, notifications, agents, proposals, deliberations, srvStatus, addPending, failures, toast>>

InfoPostFails ==
    \E i \in DOMAIN tasks :
        LET t == tasks[i]
        IN  /\ t.kind = "info"
            /\ t.pc \in {"admin", "resp", "concl"}
            /\ failures < MaxFailures
            /\ failures' = failures + 1
            /\ tasks' = [tasks EXCEPT ![i] = Finished([t EXCEPT !.failed = TRUE])]
            /\ toast' = FinishToast(t)
            /\ UNCHANGED <<votes, timers, page, build, notifications, agents, proposals, deliberations, srvStatus, srvMsgs, addPending>>

----------------------------------------------------------------------------
\* api build: updateProposalStatus and the Council Actions buttons

\* a status change that also recomputes the confidence of the proposal
SetStatusRecompute(list, id, status) ==
    [k \in DOMAIN list |->
        IF list[k].id = id
        THEN [list[k] EXCEPT !.status = status, !.confidence = 100]
        ELSE list[k]]

SetStatus(list, id, status) ==
    [k \in DOMAIN list |-> IF list[k].id = id THEN [list[k] EXCEPT !.status = status] ELSE list[k]]

updateProposalStatus(id, status) ==
    /\ build = "api"
    /\ srvStatus[id] # "none"
    /\ srvStatus' = [srvStatus EXCEPT ![id] = status]
    /\ proposals' = SetStatus(proposals, id, status)
    /\ UNCHANGED <<votes, timers, page, build, notifications, agents, deliberations, srvMsgs, tasks, addPending, failures>>

updateProposalStatusFails ==
    /\ build = "api"
    /\ failures < MaxFailures
    /\ failures' = failures + 1
    /\ UNCHANGED <<votes, timers, page, build, notifications, agents, proposals, deliberations, srvStatus, srvMsgs, tasks, addPending>>

handleApprove ==
    \E id \in LocalIds :
        /\ ~(Len(getDeliberation(id)) < approveMinRounds)
        /\ \/ /\ updateProposalStatus(id, "approved")
              /\ toast' = [op |-> "handleApprove", level |-> "success", pid |-> id]
           \/ /\ updateProposalStatusFails
              /\ toast' = [op |-> "handleApprove", level |-> "error", pid |-> id]

\* the Reject button never disabled
handleRejectAlways ==
    \E id \in LocalIds :
        \/ /\ updateProposalStatus(id, "rejected")
           /\ toast' = [op |-> "handleReject", level |-> "info", pid |-> id]
        \/ /\ updateProposalStatusFails
           /\ toast' = [op |-> "handleReject", level |-> "error", pid |-> id]

handleReject ==
    \E id \in LocalIds :
        /\ ~(Len(getDeliberation(id)) < rejectMinRounds)
        /\ \/ /\ updateProposalStatus(id, "rejected")
              /\ toast' = [op |-> "handleReject", level |-> "info", pid |-> id]
           \/ /\ updateProposalStatusFails
              /\ toast' = [op |-> "handleReject", level |-> "error", pid |-> id]

\* the context operation itself, as any consumer of useProposals may call it
\* for a proposal of the list
approve ==
    \E id \in LocalIds : updateProposalStatus(id, "approved") /\ UNCHANGED toast

reject ==
    \E id \in LocalIds : updateProposalStatus(id, "rejected") /\ UNCHANGED toast

----------------------------------------------------------------------------

NextGen ==
    \/ AddProposalPost
    \/ AddProposalFails
    \/ AddProposalResp
    \/ RefreshList
    \/ RefreshMsgs
    \/ RefreshFails
    \/ GenPostLands
    \/ GenPostFails
    \/ PatchVoting
    \/ PatchVotingFails
    \/ handleApprove
    \/ handleReject

SpecGen == InitApi /\ [][NextGen]_vars

----------------------------------------------------------------------------
\* A proposal whose five rounds have been generated and read back, at status
\* voting: the state SpecGen reaches when no call fails.

DoneParts == GenParticipants(SavedRoster)

InitVoting ==
    /\ build = "api"
    /\ agents = SavedRoster
    /\ proposals = <<NewProposal("1", "voting")>>
    /\ deliberations = [NoRounds EXCEPT !["1"] = GroupRounds(messagesToSave(DoneParts))]
    /\ srvStatus = [id \in AllIds |-> IF id = "1" THEN "voting" ELSE "none"]
    /\ srvMsgs = [id \in AllIds |-> IF id = "1" THEN messagesToSave(DoneParts) ELSE <<>>]
    /\ tasks = <<Finished(RefreshTask("mount")), Finished(GenTask("1", DoneParts))>>
    /\ addPending = {}
    /\ failures = 0
    /\ toast = [op |-> "addProposal", level |-> "success", pid |-> "1"]
    /\ votes = NoRounds
    /\ timers = {}
    /\ page = NoPage
    /\ notifications = <<NewNotification("proposal", 1)>>

NextInfo ==
    \/ \E id \in AllIds : addInfoRequest(id)
    \/ InfoPostLands
    \/ InfoPostFails
    \/ PatchVoting
    \/ PatchVotingFails
    \/ RefreshList
    \/ RefreshMsgs
    \/ RefreshFails
    \/ ManualRefresh
    \/ handleApprove
    \/ handleReject
    \/ approve
    \/ reject

SpecInfo == InitVoting /\ [][NextInfo]_vars

\* Refuted under SpecGen: InitVoting is a state the api build reaches.
InitVotingUnreachable == ~InitVoting

----------------------------------------------------------------------------
\* local build (unnamed/part_003 with the ProposalDetail of unnamed/part_000)

LocalRoster ==
    <<[domain |-> "ceo", active |-> TRUE],
      [domain |-> "hr", active |-> TRUE],
      [domain |-> "sales", active |-> FALSE]>>

SeedProposals ==
    <<[id |-> "P-001", status |-> "approved", riskTier |-> "medium", confidence |-> 92],
      [id |-> "P-002", status |-> "voting", riskTier |-> "low", confidence |-> 85],
      [id |-> "P-003", status |-> "deliberating", riskTier |-> "medium", confidence |-> 78],
      [id |-> "P-004", status |-> "pending_ceo", riskTier |-> "high", confidence |-> 65]>>

InitLocalWith(roster) ==
    /\ build = "local"
    /\ agents = roster
    /\ proposals = SeedProposals
    /\ deliberations = NoRounds
    /\ votes = NoRounds
    /\ timers = {}
    /\ page = NoPage
    /\ notifications = <<>>
    /\ srvStatus = [id \in AllIds |-> "none"]
    /\ srvMsgs = [id \in AllIds |-> <<>>]
    /\ tasks = <<>>
    /\ addPending = {}
    /\ failures = 0
    /\ toast = NoToast

InitLocal == InitLocalWith(LocalRoster)

apiState == <<srvStatus, srvMsgs, tasks, addPending, failures>>

LocalFallback == <<"Finance", "HR">>

LocalParticipants(roster) ==
    IF Len(ActiveParticipants(roster)) > 0 THEN ActiveParticipants(roster) ELSE LocalFallback

Stances == {"approve", "reject", "abstain"}

LocalMsg(round, domain, kind, evidence) ==
    [round |-> round, domain |-> domain, concl |-> FALSE, kind |-> kind, evidence |-> evidence]

\* what round 2 says for a stance, by the parity of the participant's index
Round2Kind(stance, index) ==
    IF stance = "reject" THEN "dissent"
    ELSE IF stance = "abstain" THEN "neutral"
    ELSE IF index % 2 = 0 THEN "challenge" ELSE "agreement"

\* ev[r][i]: the Math.random() draw for evidence of participant i in round r passed
generatedRounds(parts, stances, ev) ==
    <<[round |-> 1,
       conversations |-> [i \in DOMAIN parts |-> LocalMsg(1, parts[i], "initial", FALSE)],
       conclusion |-> "none"],
      [round |-> 2,
       conversations |-> [i \in DOMAIN parts |->
           LocalMsg(2, parts[i], Round2Kind(stances[parts[i]], i - 1),
                    stances[parts[i]] # "abstain" /\ ev[2][i])],
       conclusion |-> "none"],
      [round |-> 3,
       conversations |-> [i \in DOMAIN parts |-> LocalMsg(3, parts[i], "mitigation", ev[3][i])],
       conclusion |-> "none"],
      [round |-> 4,
       conversations |-> [i \in DOMAIN parts |-> LocalMsg(4, parts[i], "alignment", FALSE)],
       conclusion |-> "none"],
      [round |-> 5,
       conversations |-> [i \in DOMAIN parts |->
           LocalMsg(5, parts[i], stances[parts[i]], ev[5][i])],
       conclusion |-> "conclusion"]>>

generateVotes(currentAgents, stances) ==
    [i \in DOMAIN currentAgents |->
        [domain |-> currentAgents[i].domain,
         vote |-> IF currentAgents[i].domain \in DOMAIN stances
                  THEN stances[currentAgents[i].domain] ELSE "abstain"]]

StatusOf(id) ==
    LET at == {k \in DOMAIN proposals : proposals[k].id = id}
    IN  proposals[CHOOSE k \in at : \A j \in at : k <= j].status

\* The Math.random() draws that decide the evidence of rounds 2, 3 and 5: the
\* model takes the runs where all of them pass and where none does.
EvidenceDraws(parts) == {[r \in {2, 3, 5} |-> [i \in DOMAIN parts |-> b]] : b \in BOOLEAN}

\* generateDeliberation without its guard on an existing deliberation
LocalGenerateUnguarded(id) ==
    LET parts == LocalParticipants(agents)
    IN  \E stances \in [{parts[i] : i \in DOMAIN parts} -> Stances] :
        \E ev \in EvidenceDraws(parts) :
            /\ deliberations' = [deliberations EXCEPT ![id] = generatedRounds(parts, stances, ev)]
            /\ votes' = [votes EXCEPT ![id] = generateVotes(agents, stances)]

\* generateDeliberation of the local build
LocalGenerateDeliberation(id) ==
    IF deliberations[id] # <<>>
    THEN UNCHANGED <<deliberations, votes>>
    ELSE LET parts == LocalParticipants(agents)
         IN  \E stances \in [{parts[i] : i \in DOMAIN parts} -> Stances] :
             \E ev \in EvidenceDraws(parts) :
                 /\ deliberations' = [deliberations EXCEPT ![id] = generatedRounds(parts, stances, ev)]
                 /\ votes' = [votes EXCEPT ![id] = generateVotes(agents, stances)]

LocalAddProposal ==
    /\ build = "local"
    /\ Len(proposals) < Len(SeedIds) + MaxProposals
    /\ LET id == NewLocalId(Len(proposals) + 1)
       IN  /\ proposals' = <<NewProposal(id, "deliberating")>> \o proposals
           /\ LocalGenerateDeliberation(id)
           /\ addNotification("proposal")
           /\ toast' = [op |-> "addProposal", level |-> "success", pid |-> id]
    /\ UNCHANGED <<build, agents, timers, page, apiState>>

\* the proposals whose detail page the user opens
OpenIds == {"P-003", "P-005"}

SimTimers == {t \in timers : t.kind = "sim"}

SimTimer(id) == [kind |-> "sim", pid |-> id, rounds |-> <<>>, parts |-> <<>>]
AutoTimer(id) == [kind |-> "auto", pid |-> id, rounds |-> <<>>, parts |-> <<>>]
SubmitTimer(id) ==
    [kind |-> "submit", pid |-> id, rounds |-> deliberations[id],
     parts |-> ActiveParticipants(agents)]

\* a mount of ProposalDetail whose effect generates without looking at the
\* rounds the proposal has
LocalOpenRegenerate(id) ==
    /\ build = "local"
    /\ id \in LocalIds \cap OpenIds
    /\ page.id # id
    /\ page' = [id |-> id, requestLoading |-> FALSE]
    /\ LocalGenerateUnguarded(id)
    /\ timers' = (timers \ SimTimers) \cup
                 (IF StatusOf(id) = "deliberating" THEN {SimTimer(id)} ELSE {})
    /\ UNCHANGED <<build, notifications, agents, proposals, toast, apiState>>

\* ProposalDetail mounts for proposal id: the generate-if-missing effect and the
\* simulation effect run
LocalOpen(id) ==
    /\ build = "local"
    /\ id \in LocalIds \cap OpenIds
    /\ page.id # id
    /\ page' = [id |-> id, requestLoading |-> FALSE]
    /\ LocalGenerateDeliberation(id)
    /\ timers' = (timers \ SimTimers) \cup
                 (IF StatusOf(id) = "deliberating" THEN {SimTimer(id)} ELSE {})
    /\ UNCHANGED <<build, notifications, agents, proposals, toast, apiState>>

\* updateProposalStatus of the local build; the simulation effect of the mounted
\* page is cleaned up when the status it depends on changes
LocalUpdateProposalStatus(id, status, fired) ==
    /\ proposals' = SetStatus(proposals, id, status)
    /\ timers' = IF page.id = id /\ StatusOf(id) # status
                 THEN (timers \ fired) \ SimTimers
                 ELSE timers \ fired
    /\ IF id \in LocalIds /\ status \in {"voting", "approved", "rejected"}
       THEN addNotification("decision")
       ELSE UNCHANGED notifications

conclusionStatement(id) ==
    IF deliberations[id] = <<>> THEN "none"
    ELSE deliberations[id][Len(deliberations[id])].conclusion

LocalHandleApprove ==
    /\ build = "local"
    /\ page.id \in LocalIds
    /\ ~(conclusionStatement(page.id) = "none" \/ StatusOf(page.id) = "deliberating")
    /\ LocalUpdateProposalStatus(page.id, "approved", {})
    /\ toast' = [op |-> "handleApprove", level |-> "success", pid |-> page.id]
    /\ UNCHANGED <<build, agents, deliberations, votes, page, apiState>>

LocalHandleReject ==
    /\ build = "local"
    /\ page.id \in LocalIds
    /\ ~(conclusionStatement(page.id) = "none" \/ StatusOf(page.id) = "deliberating")
    /\ LocalUpdateProposalStatus(page.id, "rejected", {})
    /\ toast' = [op |-> "handleReject", level |-> "info", pid |-> page.id]
    /\ UNCHANGED <<build, agents, deliberations, votes, page, apiState>>

LocalSubmitInfoRequest ==
    /\ build = "local"
    /\ page.id \in LocalIds
    /\ ~page.requestLoading
    /\ Len(deliberations[page.id]) < roundsCount + MaxInfo
    /\ SubmitTimer(page.id) \notin timers
    /\ page' = [page EXCEPT !.requestLoading = TRUE]
    /\ timers' = timers \cup {SubmitTimer(page.id)}
    /\ UNCHANGED <<build, notifications, agents, proposals, deliberations, votes, toast, apiState>>

\* addInfoRequest of the local build, run by the submit timer with the state its
\* closure captured
userRequestRound(currentRounds, parts) ==
    LET n == Len(currentRounds) + 1
    IN  [round |-> n,
         conversations |-> <<[round |-> n, domain |-> "admin", concl |-> FALSE,
                              kind |-> "query", evidence |-> FALSE]>>
                           \o [i \in DOMAIN parts |-> ResponseMsg(n, parts[i])],
         conclusion |-> "infoConclusion"]

LocalSubmitTimerFires ==
    \E t \in timers :
        /\ t.kind = "submit"
        /\ deliberations' = [deliberations EXCEPT
               ![t.pid] = Append(t.rounds, userRequestRound(t.rounds, t.parts))]
        /\ timers' = (timers \ {t}) \cup {AutoTimer(t.pid)}
        /\ page' = IF page.id = t.pid THEN [page EXCEPT !.requestLoading = FALSE] ELSE page
        /\ toast' = [op |-> "addInfoRequest", level |-> "success", pid |-> t.pid]
        /\ UNCHANGED <<build, notifications, agents, proposals, votes, apiState>>

\* the 5 s auto-transition timer of addInfoRequest and the 3 s simulation timer
\* of ProposalDetail both call updateProposalStatus(id, 'voting')
LocalVotingTimerFires ==
    \E t \in timers :
        /\ t.kind \in {"auto", "sim"}
        /\ LocalUpdateProposalStatus(t.pid, "voting", {t})
        /\ toast' = IF t.kind = "sim"
                    THEN [op |-> "simulation", level |-> "success", pid |-> t.pid]
                    ELSE toast
        /\ UNCHANGED <<build, agents, deliberations, votes, page, apiState>>

\* updateProposalStatus of the local build as any consumer of useProposals may
\* call it
LocalApprove ==
    /\ build = "local"
    /\ \E id \in LocalIds : LocalUpdateProposalStatus(id, "approved", {})
    /\ UNCHANGED <<build, agents, deliberations, votes, page, toast, apiState>>

LocalReject ==
    /\ build = "local"
    /\ \E id \in LocalIds : LocalUpdateProposalStatus(id, "rejected", {})
    /\ UNCHANGED <<build, agents, deliberations, votes, page, toast, apiState>>

NextLocal ==
    \/ LocalAddProposal
    \/ \E id \in AllIds : LocalOpen(id)
    \/ LocalHandleApprove
    \/ LocalHandleReject
    \/ LocalSubmitInfoRequest
    \/ LocalSubmitTimerFires
    \/ LocalVotingTimerFires

SpecLocal == InitLocal /\ [][NextLocal]_vars

----------------------------------------------------------------------------
\* Both builds, with the user of the api build starting an operation only when
\* none is in flight.  The calls of one operation still complete in any order.

Idle == addPending = {} /\ \A i \in DOMAIN tasks : tasks[i].pc = "done"

Init == InitApi \/ InitLocal

Next ==
    \/ Idle /\ AddProposalPost
    \/ Idle /\ AddProposalFails
    \/ AddProposalResp
    \/ RefreshList
    \/ RefreshMsgs
    \/ RefreshFails
    \/ Idle /\ ManualRefresh
    \/ GenPostLands
    \/ GenPostFails
    \/ PatchVoting
    \/ PatchVotingFails
    \/ Idle /\ \E id \in AllIds : addInfoRequest(id)
    \/ InfoPostLands
    \/ InfoPostFails
    \/ Idle /\ handleApprove
    \/ Idle /\ handleReject
    \/ Idle /\ approve
    \/ Idle /\ reject
    \/ NextLocal

Spec == Init /\ [][Next]_vars

\* The context operations approve(P) and reject(P) called at any time, in the
\* api build also while the deliberation of P is being generated.
NextOps ==
    \/ AddProposalPost
    \/ AddProposalResp
    \/ RefreshList
    \/ RefreshMsgs
    \/ GenPostLands
    \/ PatchVoting
    \/ approve
    \/ reject
    \/ LocalAddProposal
    \/ \E id \in AllIds : LocalOpen(id)
    \/ LocalApprove
    \/ LocalReject

SpecOps == Init /\ [][NextOps]_vars

\* generateDeliberation run a second time for a proposal whose five rounds are
\* stored
NextRegen ==
    \/ Idle /\ \E id \in AllIds : generateDeliberation(id)
    \/ GenPostLands
    \/ GenPostFails
    \/ PatchVoting
    \/ PatchVotingFails
    \/ RefreshList
    \/ RefreshMsgs
    \/ RefreshFails

SpecRegen == InitVoting /\ [][NextRegen]_vars

----------------------------------------------------------------------------
\* Any roster the AgentProvider may load from localStorage: the agents ceo, hr
\* and finance, each active or not.  Operations are started one at a time.

Rosters ==
    {<<[domain |-> "ceo", active |-> c],
       [domain |-> "hr", active |-> h],
       [domain |-> "finance", active |-> f]>> : c \in BOOLEAN, h \in BOOLEAN, f \in BOOLEAN}

InitRoster == \E roster \in Rosters : InitApiWith(roster) \/ InitLocalWith(roster)

\* the run of Promise.all in which the backend answers the posts in the order sent
GenPostLandsInOrder ==
    /\ GenPostLands
    /\ \A i \in DOMAIN tasks : \A j \in tasks[i].pending \ tasks'[i].pending :
           \A k \in tasks'[i].pending : j < k

NextRoster ==
    \/ Idle /\ AddProposalPost
    \/ AddProposalResp
    \/ RefreshList
    \/ RefreshMsgs
    \/ GenPostLandsInOrder
    \/ PatchVoting
    \/ Idle /\ \E id \in AllIds : addInfoRequest(id)
    \/ InfoPostLands
    \/ \E id \in AllIds : LocalOpen(id)
    \/ LocalSubmitInfoRequest
    \/ LocalSubmitTimerFires
    \/ LocalVotingTimerFires

SpecRoster == InitRoster /\ [][NextRoster]_vars

----------------------------------------------------------------------------
\* An information request sent from the detail page while the generation of the
\* proposal is still posting its messages.

GenInFlight(id) ==
    \E i \in DOMAIN tasks :
        tasks[i].kind = "gen" /\ tasks[i].pid = id /\ tasks[i].pc = "posting"

NextEarly ==
    \/ Idle /\ AddProposalPost
    \/ AddProposalResp
    \/ RefreshList
    \/ RefreshMsgs
    \/ GenPostLandsInOrder
    \/ PatchVoting
    \/ /\ CountKind("info") < MaxEarlyInfo
       /\ \E id \in AllIds : GenInFlight(id) /\ addInfoRequest(id)
    \/ InfoPostLands

SpecEarly == InitApi /\ [][NextEarly]_vars

----------------------------------------------------------------------------

\* Creation of a proposal under fair scheduling: every backend call that is
\* pending is answered at some time.  Whether the backend answers with a
\* failure is left open.

NextLive ==
    \/ Idle /\ AddProposalPost
    \/ AddProposalFails
    \/ AddProposalResp
    \/ RefreshList
    \/ RefreshMsgs
    \/ RefreshFails
    \/ GenPostLandsInOrder
    \/ GenPostFails
    \/ PatchVoting
    \/ PatchVotingFails

Fairness ==
    /\ WF_vars(AddProposalResp)
    /\ WF_vars(RefreshList)
    /\ WF_vars(RefreshMsgs)
    /\ WF_vars(GenPostLandsInOrder)
    /\ WF_vars(PatchVoting)

SpecLive == InitApi /\ [][NextLive]_vars /\ Fairness

----------------------------------------------------------------------------

\* AgentContext: the operations on the roster, as the Agents page and any other
\* consumer of useAgents may call them.

AgentDomains == {"ceo", "hr", "finance", "sales", "legal"}

RosterDomains(roster) == {roster[i].domain : i \in DOMAIN roster}

\* { ...a, ...updates }
Merge(a, updates) ==
    [f \in DOMAIN a \cup DOMAIN updates |-> IF f \in DOMAIN updates THEN updates[f] ELSE a[f]]

\* the partial agents updateAgent is called with
Updates == {[f \in {} |-> TRUE]} \cup {[active |-> b] : b \in BOOLEAN}

addAgent(agent) ==
    /\ Len(agents) < MaxAgents
    /\ agents' = Append(agents, agent)
    /\ toast' = [op |-> "addAgent", level |-> "none", pid |-> agent.domain]
    /\ UNCHANGED <<build, notifications, proposals, deliberations, votes, timers, page, apiState>>

updateAgent(domain, updates) ==
    /\ agents' = [i \in DOMAIN agents |->
                     IF agents[i].domain = domain THEN Merge(agents[i], updates) ELSE agents[i]]
    /\ toast' = [op |-> "updateAgent", level |-> "none", pid |-> domain]
    /\ UNCHANGED <<build, notifications, proposals, deliberations, votes, timers, page, apiState>>

\* a toggle that discards the rounds and votes generated under the old roster
toggleAgentRecompute(domain) ==
    /\ agents' = [i \in DOMAIN agents |->
                     IF agents[i].domain = domain
                     THEN [agents[i] EXCEPT !.active = ~agents[i].active] ELSE agents[i]]
    /\ toast' = [op |-> "toggleAgent", level |-> "none", pid |-> domain]
    /\ deliberations' = NoRounds
    /\ votes' = [id \in AllIds |-> <<>>]
    /\ UNCHANGED <<build, notifications, proposals, timers, page, apiState>>

toggleAgent(domain) ==
    /\ agents' = [i \in DOMAIN agents |->
                     IF agents[i].domain = domain
                     THEN [agents[i] EXCEPT !.active = ~agents[i].active] ELSE agents[i]]
    /\ toast' = [op |-> "toggleAgent", level |-> "none", pid |-> domain]
    /\ UNCHANGED <<build, notifications, proposals, deliberations, votes, timers, page, apiState>>

\* the switch of a row of the Agents page
handleToggle(domain) ==
    /\ domain \in RosterDomains(agents)
    /\ agents' = [i \in DOMAIN agents |->
                     IF agents[i].domain = domain
                     THEN [agents[i] EXCEPT !.active = ~agents[i].active] ELSE agents[i]]
    /\ toast' = [op |-> "handleToggle", level |-> "success", pid |-> domain]
    /\ UNCHANGED <<build, notifications, proposals, deliberations, votes, timers, page, apiState>>

\* what the Create Agent form is filled in with as domain
TypedDomains == {"hr", "HR", "Legal"}

\* values.domain.toLowerCase().replace(/\s+/g, '_') on the typed domains
NormalizeDomain(typed) ==
    CASE typed = "hr" -> "hr"
      [] typed = "HR" -> "hr"
      [] typed = "Legal" -> "legal"

\* the Create button of the Agents page: the form is valid, the agent is
\* appended and the success message is shown
handleCreateAgent(typed) ==
    /\ Len(agents) < MaxAgents
    /\ agents' = Append(agents, [domain |-> NormalizeDomain(typed), active |-> TRUE])
    /\ toast' = [op |-> "handleCreateAgent", level |-> "success", pid |-> NormalizeDomain(typed)]
    /\ UNCHANGED <<build, notifications, proposals, deliberations, votes, timers, page, apiState>>

NextAgents ==
    \/ \E d \in AgentDomains : \E b \in BOOLEAN : addAgent([domain |-> d, active |-> b])
    \/ \E typed \in TypedDomains : handleCreateAgent(typed)
    \/ \E d \in AgentDomains : \E u \in Updates : updateAgent(d, u)
    \/ \E d \in AgentDomains : toggleAgent(d)
    \/ \E d \in AgentDomains : handleToggle(d)

SpecAgents == Init /\ [][NextAgents]_vars

----------------------------------------------------------------------------

\* The roster is changed while proposals are created, generated and asked about.

\* the domains whose agents are changed: hr is in the loaded rosters, legal is not
ToggleDomains == {"hr", "legal"}

NextToggle ==
    \/ \E d \in ToggleDomains : addAgent([domain |-> d, active |-> TRUE])
    \/ \E d \in ToggleDomains : \E u \in Updates : updateAgent(d, u)
    \/ \E d \in ToggleDomains : toggleAgent(d)
    \/ Idle /\ AddProposalPost
    \/ AddProposalResp
    \/ RefreshList
    \/ RefreshMsgs
    \/ GenPostLandsInOrder
    \/ PatchVoting
    \/ \E id \in AllIds : LocalOpen(id)
    \/ LocalSubmitInfoRequest
    \/ LocalSubmitTimerFires

SpecToggle == Init /\ [][NextToggle]_vars

----------------------------------------------------------------------------

\* NotificationProvider: the operations of the notification panel and the
\* periodic check that adds a simulated notification.

unreadCount == Len(SelectSeq(notifications, LAMBDA n : ~n.read))

checkForUpdates ==
    /\ \E type \in {"proposal", "decision"} : addNotification(type)
    /\ UNCHANGED <<build, agents, proposals, deliberations, votes, timers, page, toast, apiState>>

markAsRead(id) ==
    /\ notifications' = [i \in DOMAIN notifications |->
                            IF notifications[i].id = id
                            THEN [notifications[i] EXCEPT !.read = TRUE]
                            ELSE notifications[i]]
    /\ UNCHANGED <<build, agents, proposals, deliberations, votes, timers, page, toast, apiState>>

markAllAsRead ==
    /\ notifications' = [i \in DOMAIN notifications |-> [notifications[i] EXCEPT !.read = TRUE]]
    /\ UNCHANGED <<build, agents, proposals, deliberations, votes, timers, page, toast, apiState>>

clearAll ==
    /\ notifications' = <<>>
    /\ UNCHANGED <<build, agents, proposals, deliberations, votes, timers, page, toast, apiState>>

NextNotif ==
    \/ checkForUpdates
    \/ \E i \in DOMAIN notifications : markAsRead(notifications[i].id)
    \/ markAllAsRead
    \/ clearAll
    \/ LocalAddProposal
    \/ \E id \in AllIds : LocalOpen(id)
    \/ LocalVotingTimerFires
    \/ LocalHandleApprove
    \/ LocalHandleReject

SpecNotif == InitLocal /\ [][NextNotif]_vars

----------------------------------------------------------------------------

\* Failing calls: a form that does not validate, a proposal id that does not
\* exist, a backend call that is rejected.

\* CreateProposalModal.handleOk when validateFields rejects: the form shows the
\* messages of its rules and onSubmit is not called
handleOkInvalid ==
    /\ toast' = [op |-> "handleOk", level |-> "error", pid |-> "none"]
    /\ UNCHANGED <<build, notifications, agents, proposals, deliberations, votes, timers, page, apiState>>

\* updateProposalStatus of the api build for an id the backend does not hold:
\* the PATCH is answered 404 and the catch rethrows
updateProposalStatusNotFound(id) ==
    /\ build = "api"
    /\ srvStatus[id] = "none"
    /\ toast' = [op |-> "updateProposalStatus", level |-> "error", pid |-> id]
    /\ UNCHANGED <<build, notifications, agents, proposals, deliberations, votes, timers, page, apiState>>

\* updateProposalStatus of the local build called with any id
LocalStatusCall(id, status) ==
    /\ build = "local"
    /\ LocalUpdateProposalStatus(id, status, {})
    /\ toast' = [op |-> "updateProposalStatus", level |-> "none", pid |-> id]
    /\ UNCHANGED <<build, agents, deliberations, votes, page, apiState>>

NextErr ==
    \/ handleOkInvalid
    \/ Idle /\ AddProposalPost
    \/ Idle /\ AddProposalFails
    \/ AddProposalResp
    \/ RefreshList
    \/ RefreshMsgs
    \/ GenPostLandsInOrder
    \/ PatchVoting
    \/ Idle /\ handleApprove
    \/ Idle /\ handleReject
    \/ \E id \in AllIds : updateProposalStatusNotFound(id)
    \/ \E id \in AllIds : \E status \in {"approved", "rejected"} : LocalStatusCall(id, status)
    \/ LocalAddProposal
    \/ \E id \in AllIds : LocalOpen(id)
    \/ LocalVotingTimerFires

SpecErr == Init /\ [][NextErr]_vars

----------------------------------------------------------------------------

\* The page is loaded when the backend already holds two proposals in voting
\* with their five rounds; refreshes overlap with an information request.

InitLoaded ==
    /\ build = "api"
    /\ agents = SavedRoster
    /\ proposals = <<>>
    /\ deliberations = NoRounds
    /\ srvStatus = [id \in AllIds |-> IF id \in {"1", "2"} THEN "voting" ELSE "none"]
    /\ srvMsgs = [id \in AllIds |-> IF id \in {"1", "2"} THEN messagesToSave(DoneParts) ELSE <<>>]
    /\ tasks = <<RefreshTask("mount")>>
    /\ addPending = {}
    /\ failures = 0
    /\ toast = NoToast
    /\ votes = NoRounds
    /\ timers = {}
    /\ page = NoPage
    /\ notifications = <<>>

NextRefresh ==
    \/ ManualRefresh
    \/ RefreshList
    \/ RefreshMsgs
    \/ \E id \in AllIds : addInfoRequest(id)
    \/ InfoPostLands
    \/ PatchVoting

SpecRefresh == InitLoaded /\ [][NextRefresh]_vars

----------------------------------------------------------------------------

\* Properties

Terminal == {"approved", "rejected"}

TransitionSurface == {"deliberating", "voting", "approved", "rejected"}

StoredRounds(id) == GroupRounds(srvMsgs[id])

\* round r holds one query of the admin, one response per participant and the
\* conclusion of the info request
IsInfoRound(r, parts) ==
    /\ Len(r.conversations) = Len(parts) + 1
    /\ r.conversations[1].kind = "query"
    /\ r.conversations[1].domain = "admin"
    /\ \A i \in DOMAIN parts :
           /\ r.conversations[i + 1].kind = "response"
           /\ r.conversations[i + 1].domain = parts[i]
    /\ r.conclusion = "infoConclusion"

\* C1: once the status of a proposal is approved or rejected, no step changes
\* it, neither in the backend nor in the list the provider holds.
C1_TerminalIsFinal ==
    [][/\ \A id \in AllIds :
              srvStatus[id] \in Terminal => srvStatus'[id] = srvStatus[id]
       /\ \A k \in DOMAIN proposals :
              proposals[k].status \in Terminal =>
                  \E j \in DOMAIN proposals' : proposals'[j] = proposals[k]]_vars

\* C2: no step sets the status of a proposal to approved while the proposal has
\* fewer than 5 rounds (in the backend of the api build, in the provider of the
\* local build), whoever calls updateProposalStatus.
C2_ApproveGuarded ==
    [][/\ \A id \in AllIds :
              (srvStatus'[id] = "approved" /\ srvStatus[id] # "approved") =>
                  Len(StoredRounds(id)) >= approveMinRounds
       /\ build = "local" =>
              \A k \in DOMAIN proposals : \A j \in DOMAIN proposals' :
                  (/\ proposals'[j].id = proposals[k].id
                   /\ proposals'[j].status = "approved"
                   /\ proposals[k].status # "approved") =>
                      Len(deliberations[proposals[k].id]) >= approveMinRounds]_vars

C4_StatusOnSurface ==
    [][/\ \A id \in AllIds :
              srvStatus'[id] # srvStatus[id] => srvStatus'[id] \in TransitionSurface
       /\ \A j \in DOMAIN proposals' :
              \/ proposals'[j].status \in TransitionSurface
              \/ \E k \in DOMAIN proposals : proposals[k] = proposals'[j]]_vars

\* both builds' surfaces have acted: a proposal was created and rejected
C4_Witness ==
    \E k \in DOMAIN proposals :
        /\ proposals[k].id \in {"1", "P-005"}
        /\ proposals[k].status = "rejected"

\* C5: in every deliberation the provider holds, round numbers are 1, 2, ... and
\* each generated round has one message per participant, none by the system,
\* and a conclusion.
C5_GeneratedRoundsComplete ==
    \A id \in AllIds : \A k \in DOMAIN deliberations[id] :
        LET r == deliberations[id][k]
        IN  /\ r.round = k
            /\ k <= roundsCount =>
                   /\ Len(r.conversations) = Len(LocalParticipants(agents))
                   /\ \A i \in DOMAIN r.conversations : r.conversations[i].domain # "system"
                   /\ r.conclusion = "conclusion"

\* C6: when the first info request of a proposal whose page showed 5 rounds
\* ends and no backend call has failed, the backend holds and the page shows
\* exactly 6 rounds, the 6th with the admin's query, one response per
\* participant and a conclusion, and the status is voting; in the local build
\* the same holds when the submit timer of a proposal at voting with 5 rounds
\* runs.
C6_InfoRoundTrip ==
    [][/\ \A i \in DOMAIN tasks :
              LET t == tasks[i]
              IN  (/\ t.kind = "info"
                   /\ t.pc # "done"
                   /\ tasks'[i].pc = "done"
                   /\ CountKind("info") = 1
                   /\ t.nextRound = roundsCount + 1
                   /\ failures' = 0) =>
                      /\ Len(StoredRounds(t.pid)) = roundsCount + 1
                      /\ deliberations'[t.pid] = StoredRounds(t.pid)
                      /\ IsInfoRound(deliberations'[t.pid][roundsCount + 1],
                                     ActiveParticipants(agents))
                      /\ srvStatus'[t.pid] = "voting"
                      /\ \E k \in DOMAIN proposals' :
                             proposals'[k].id = t.pid /\ proposals'[k].status = "voting"
       /\ \A t \in timers :
              (/\ t.kind = "submit"
               /\ t \notin timers'
               /\ Len(deliberations[t.pid]) = roundsCount
               /\ StatusOf(t.pid) = "voting") =>
                  /\ Len(deliberations'[t.pid]) = roundsCount + 1
                  /\ IsInfoRound(deliberations'[t.pid][roundsCount + 1],
                                 ActiveParticipants(agents))
                  /\ \E k \in DOMAIN proposals' :
                         proposals'[k].id = t.pid /\ proposals'[k].status = "voting"]_vars

\* the info request of proposal 1 has ended: 6 rounds, status voting
C6_Witness ==
    /\ \E i \in DOMAIN tasks :
           tasks[i].kind = "info" /\ tasks[i].pc = "done" /\ ~tasks[i].failed
    /\ failures = 0
    /\ Len(deliberations["1"]) = roundsCount + 1
    /\ IsInfoRound(deliberations["1"][roundsCount + 1], ActiveParticipants(agents))
    /\ srvStatus["1"] = "voting"

\* C7: after two info requests of a proposal have both ended and no backend
\* call has failed, the backend holds two more rounds, 6 and 7, each with its
\* own query, responses and conclusion.
C7_ConcurrentInfoRequests ==
    (/\ CountKind("info") = 2
     /\ Idle
     /\ failures = 0) =>
        /\ Len(StoredRounds("1")) = roundsCount + 2
        /\ \A n \in {roundsCount + 1, roundsCount + 2} :
               /\ StoredRounds("1")[n].round = n
               /\ IsInfoRound(StoredRounds("1")[n], InfoParticipants(agents))

\* C8: every round the provider holds after a refresh has one message per
\* participant and its conclusion.
C8_NoPartialRoundVisible ==
    \A id \in AllIds : \A k \in DOMAIN deliberations[id] :
        /\ Len(deliberations[id][k].conversations) = Len(GenParticipants(agents))
        /\ deliberations[id][k].conclusion # "none"

\* C9: the step in which a backend call of addInfoRequest or generateDeliberation
\* fails shows an error to the user.
C9_FailureIsShown ==
    [][\A i \in DOMAIN tasks :
           (tasks'[i].failed /\ ~tasks[i].failed) => toast'.level = "error"]_vars

\* C10: whatever generateDeliberation has run for a proposal, the backend holds
\* for each of rounds 1..5 at most one message per participant and at most one
\* conclusion.
C10_NoDuplicateMessages ==
    \A id \in AllIds : \A n \in 1..roundsCount :
        /\ Len(SelectSeq(srvMsgs[id], LAMBDA m : m.round = n /\ ~m.concl))
               <= Len(GenParticipants(agents))
        /\ Len(SelectSeq(srvMsgs[id], LAMBDA m : m.round = n /\ m.concl)) <= 1

\* the domains of the roster the participation filter lets speak
ClaimedSpeakers == {agents[i].domain : i \in {k \in DOMAIN agents :
                        agents[k].active /\ agents[k].domain # "ceo"}}

\* the authors of the agent messages of all rounds, stored or shown
AgentAuthors ==
    {x \in UNION {{srvMsgs[id][i].domain : i \in DOMAIN srvMsgs[id]} : id \in AllIds}
          \cup UNION {UNION {{deliberations[id][k].conversations[i].domain :
                                 i \in DOMAIN deliberations[id][k].conversations} :
                             k \in DOMAIN deliberations[id]} : id \in AllIds} :
        x \notin {"admin", "system"}}

\* C11 as stated: every agent message of every round is by an agent of the
\* roster that is active and not the CEO, and an inactive agent never speaks
\* when another agent of the roster is active.
C11_OnlyActiveAgentsSpeak ==
    /\ AgentAuthors \subseteq ClaimedSpeakers
    /\ \A i \in DOMAIN agents :
           (~agents[i].active /\ \E j \in DOMAIN agents : j # i /\ agents[j].active) =>
               agents[i].domain \notin AgentAuthors

\* C11: the CEO never speaks, and when the roster has an active agent other
\* than the CEO every agent message of every round is by such an agent (with
\* none, the fallback participants speak).
C11_ActiveAgentsSpeakUnlessFallback ==
    /\ "ceo" \notin AgentAuthors
    /\ ClaimedSpeakers # {} => AgentAuthors \subseteq ClaimedSpeakers

\* a roster with an active and an inactive agent next to the active CEO, after
\* the five rounds and an information round were generated
C11_Witness ==
    /\ ClaimedSpeakers # {}
    /\ \E i \in DOMAIN agents : ~agents[i].active
    /\ \E i \in DOMAIN agents : agents[i].active /\ agents[i].domain = "ceo"
    /\ \E id \in AllIds :
           /\ Len(deliberations[id]) = roundsCount + 1
           /\ Len(deliberations[id][roundsCount + 1].conversations) > 1

\* the participants of the deliberation of proposal id: the speakers of its
\* first round
DelibParticipants(id) ==
    {deliberations[id][1].conversations[i].domain :
        i \in DOMAIN deliberations[id][1].conversations}

\* C12: the votes of a proposal are exactly one per participant of its
\* deliberation, none for any other agent, each approve, reject or abstain.
C12_OneVotePerParticipant ==
    \A id \in AllIds :
        votes[id] # <<>> =>
            /\ {votes[id][i].domain : i \in DOMAIN votes[id]} = DelibParticipants(id)
            /\ \A i, j \in DOMAIN votes[id] :
                   votes[id][i].domain = votes[id][j].domain => i = j
            /\ \A i \in DOMAIN votes[id] : votes[id][i].vote \in Stances

\* rounds 1..5 of proposal id are stored with every message of every participant
\* and their conclusions
GeneratedRoundsStored(id, parts) ==
    \A n \in 1..roundsCount :
        /\ Len(SelectSeq(srvMsgs[id], LAMBDA m : m.round = n /\ m.kind = "delib")) = Len(parts)
        /\ \E i \in DOMAIN srvMsgs[id] : srvMsgs[id][i] = ConclusionMsg(n)

\* C13: a proposal whose status is voting, at the backend or in the list the
\* provider holds, has all its five generated rounds completely stored.
C13_VotingAfterFiveRounds ==
    \A id \in AllIds :
        (\/ srvStatus[id] = "voting"
         \/ \E k \in DOMAIN proposals : proposals[k].id = id /\ proposals[k].status = "voting") =>
            GeneratedRoundsStored(id, GenParticipants(agents))

\* C14: every proposal the backend has created in status deliberating reaches
\* status voting at some later time.
C14_EventuallyVoting ==
    \A id \in AllIds : (srvStatus[id] = "deliberating") ~> (srvStatus[id] = "voting")

\* the position of domain d in the participant roster passed to the generator
PosIn(parts, d) == CHOOSE i \in DOMAIN parts : parts[i] = d

\* C15: in what the provider holds after re-reading the stored messages, the
\* rounds are in increasing number and the agent messages of every round are in
\* the order of the participant roster.
C15_RosterOrderPreserved ==
    \A id \in AllIds : \A k \in DOMAIN deliberations[id] :
        LET c == deliberations[id][k].conversations
        IN  /\ k > 1 => deliberations[id][k - 1].round < deliberations[id][k].round
            /\ \A a, b \in DOMAIN c :
                   a < b => PosIn(GenParticipants(agents), c[a].domain)
                                < PosIn(GenParticipants(agents), c[b].domain)

IsPrefix(s, t) == Len(s) <= Len(t) /\ \A i \in DOMAIN s : t[i] = s[i]

\* C16: no step removes, replaces or changes a round of the deliberation the
\* provider holds for a proposal; a step only appends rounds.
C16_RoundsAppendOnly ==
    [][\A id \in AllIds : IsPrefix(deliberations[id], deliberations'[id])]_vars

\* C17: every participant of a generated deliberation has a vote, and that vote
\* is the stance its round-5 final-position message expresses.
C17_VoteEqualsStance ==
    \A id \in AllIds :
        Len(deliberations[id]) >= roundsCount /\ build = "local" =>
            \A i \in DOMAIN deliberations[id][roundsCount].conversations :
                LET c == deliberations[id][roundsCount].conversations[i]
                IN  \E j \in DOMAIN votes[id] :
                        votes[id][j].domain = c.domain /\ votes[id][j].vote = c.kind

\* C18: once a proposal has votes, no step replaces or alters them.
C18_VotesNeverRevised ==
    [][\A id \in AllIds : votes[id] # <<>> => votes'[id] = votes[id]]_vars

\* P-003 has its votes, and after them an information round was appended and
\* its status was changed to approved
C18_Witness ==
    /\ votes["P-003"] # <<>>
    /\ Len(deliberations["P-003"]) = roundsCount + 1
    /\ StatusOf("P-003") = "approved"

\* C19: every round of every deliberation the provider holds has at least one
\* message of an agent.
C19_NoRoundWithoutSpeaker ==
    \A id \in AllIds : \A k \in DOMAIN deliberations[id] :
        \E i \in DOMAIN deliberations[id][k].conversations :
            deliberations[id][k].conversations[i].domain \notin {"admin", "system"}

\* C20: a step of updateAgent or toggleAgent for a domain that no agent of the
\* roster has reports an error to the caller and leaves the roster unchanged.
C20_AbsentAgentNotFound ==
    [][\A d \in AgentDomains :
           (/\ d \notin RosterDomains(agents)
            /\ toast' # toast
            /\ toast'.op \in {"updateAgent", "toggleAgent"}
            /\ toast'.pid = d) =>
               /\ toast'.level = "error"
               /\ agents' = agents]_vars

\* C21: a step that changes the roster leaves the rounds, stored messages and
\* votes of every proposal as they were, and also the participants captured by
\* the generations and information requests already started.
C21_RosterChangeKeepsRounds ==
    [][agents' # agents =>
           /\ deliberations' = deliberations
           /\ srvMsgs' = srvMsgs
           /\ votes' = votes
           /\ tasks' = tasks
           /\ addPending' = addPending
           /\ timers' = timers]_vars

\* P-003 has rounds and votes generated for participants that are no longer
\* the active agents of the roster
C21_Witness ==
    /\ votes["P-003"] # <<>>
    /\ Len(deliberations["P-003"]) >= roundsCount
    /\ ClaimedSpeakers # {}
    /\ DelibParticipants("P-003") # ClaimedSpeakers

\* C28: no two notifications of the list have the same id.
C28_NotificationIdsUnique ==
    \A i, j \in DOMAIN notifications :
        notifications[i].id = notifications[j].id => i = j

\* a step in which the creation of a proposal or a change of status fails: the
\* form does not validate, the backend rejects the call, or the id is unknown
FailingCall ==
    \/ toast' # toast /\ toast'.op = "handleOk"
    \/ failures' > failures /\ tasks' = tasks
    \/ /\ toast' # toast
       /\ toast'.op = "updateProposalStatus"
       /\ toast'.pid \notin LocalIds

\* C22: a failing creation or status change reports an error and leaves the
\* proposals, the deliberations and the notifications as they were.
C22_FailureSurfacedNoMutation ==
    [][FailingCall =>
           /\ toast'.level = "error"
           /\ proposals' = proposals
           /\ deliberations' = deliberations
           /\ notifications' = notifications]_vars

\* C23: no step changes the risk tier or the confidence of a proposal of the
\* list.
C23_ConfidenceAndRiskKept ==
    [][\A k \in DOMAIN proposals : \A j \in DOMAIN proposals' :
           proposals'[j].id = proposals[k].id =>
               /\ proposals'[j].riskTier = proposals[k].riskTier
               /\ proposals'[j].confidence = proposals[k].confidence]_vars

\* a proposal that was generated, asked about and then decided
C23_Witness ==
    \E k \in DOMAIN proposals :
        /\ proposals[k].status \in {"approved", "rejected"}
        /\ Len(deliberations[proposals[k].id]) = roundsCount + 1

\* C24: getDeliberation(id) is the sequence of rounds the provider holds, a
\* function of the state alone, and a step that opens the page of a proposal
\* leaves the rounds and votes of every proposal that has rounds as they were.
C24_ViewingKeepsRounds ==
    [][/\ \A id \in AllIds : getDeliberation(id) = deliberations[id]
       /\ page'.id # page.id =>
              \A id \in AllIds :
                  deliberations[id] # <<>> =>
                      /\ getDeliberation(id)' = getDeliberation(id)
                      /\ votes'[id] = votes[id]]_vars

\* the page of P-005 is open; its rounds were generated when it was created
C24_Witness ==
    /\ page.id = "P-005"
    /\ Len(deliberations["P-005"]) >= roundsCount
    /\ deliberations["P-003"] # <<>>

\* C25: every message that carries evidence, stored or in the rounds the
\* provider holds, is a deliberation message of round 2 or round 4.
C25_EvidenceOnlyRounds2And4 ==
    \A id \in AllIds :
        /\ \A i \in DOMAIN srvMsgs[id] :
               srvMsgs[id][i].evidence =>
                   srvMsgs[id][i].round \in {2, 4} /\ srvMsgs[id][i].kind = "delib"
        /\ \A k \in DOMAIN deliberations[id] :
               \A i \in DOMAIN deliberations[id][k].conversations :
                   LET c == deliberations[id][k].conversations[i]
                   IN  c.evidence =>
                           /\ deliberations[id][k].round \in {2, 4}
                           /\ c.kind \notin {"query", "response"}

\* C26: no message of an information request, in flight or stored, has a round
\* number of the generated rounds 1..5.
C26_InfoRoundAfterGenerated ==
    /\ \A i \in DOMAIN tasks :
           tasks[i].kind = "info" /\ tasks[i].pc # "done" => tasks[i].nextRound > roundsCount
    /\ \A id \in AllIds : \A i \in DOMAIN srvMsgs[id] :
           srvMsgs[id][i].kind \in {"query", "response", "infoConclusion"} =>
               srvMsgs[id][i].round > roundsCount

\* C27: when every refresh and every other call of the provider has ended and
\* none has failed, the proposals and the rounds the provider holds are those
\* of the backend.
C27_RefreshesConverge ==
    (Idle /\ failures = 0 /\ build = "api") =>
        /\ proposals = SrvProposals
        /\ \A id \in AllIds : deliberations[id] = StoredRounds(id)

\* C29: no two agents of the roster have the same domain, whatever sequence of
\* addAgent, updateAgent and toggleAgent has run.
C29_DomainsUnique ==
    \A i, j \in DOMAIN agents : agents[i].domain = agents[j].domain => i = j

====
